---- MODULE Spec2Model ----
(***************************************************************************)
(* Model of utopista_py: sheet.py (review weeks, worksheet readers, the    *)
(* concurrent week fetcher) and update_posts_db.py (the find-then-write    *)
(* reconciler and the update_db orchestrator).                             *)
(* The functions of sheet.py that work on one cell or one page            *)
(* (get_status, get_watched_users, parse_date_to_iso) have specifications  *)
(* of their own.                                                           *)
(*                                                                         *)
(* Dates are proleptic Gregorian ordinals (datetime.date.toordinal()).     *)
(* A worksheet row is reduced to the cells that decide control flow and    *)
(* the stored natural key: the post URL (which post it names, or a URL     *)
(* that cannot be decomposed / a post the content lookup does not find)    *)
(* and the status the remaining cells give the post.                          *)
(***************************************************************************)
EXTENDS Integers, Sequences, FiniteSets, TLC

\* ------------------------------------------------------------------ bounds

\* dates of WeekSpec range over REVIEW_FIRST_DAY - DaysBefore .. REVIEW_FIRST_DAY + DaysAfter
DaysBefore == 30
DaysAfter == 60
\* days before the first review day on which a fetch may run
EarlyDays == 2
\* days after the first review day on which a fetch (FetchSpec) may run
FetchDays == 14
\* update_db (Spec) runs MinDays to MaxDays days after the first review day
MinDays == 7
MaxDays == 8
\* data rows on all worksheets read in one run, together
MaxRows == 2
\* distinct posts (author, permlink) a row can name
NPosts == 2
\* data rows on the 'Banned users' page (WatchSpec)
MaxBanned == 2
\* distinct dates the date parser can read out of a cell (DateSpec)
NDates == 6

\* ------------------------------------------------------------------ dates

REVIEW_FIRST_DAY == 736817

\* date.weekday(): Monday is 0
weekday(d) == (d + 6) % 7

\* a variant anchored on Friday
get_review_week_start_end_anchor4(date_in_week) ==
    LET offset == (weekday(date_in_week) - 4) % 7
        this_week == date_in_week - offset
        next_week == this_week + 7
    IN  <<this_week, next_week>>

get_review_week_start_end(date_in_week) ==
    LET offset == (weekday(date_in_week) - 3) % 7
        this_week == date_in_week - offset
        next_week == this_week + 7
    IN  <<this_week, next_week>>

\* f"{d:%b} {d.day}" for a date of 2018: <<month, day of month>>
MonthLen == <<31, 28, 31, 30, 31, 30, 31, 31, 30, 31, 30, 31>>

RECURSIVE MonthDayFrom(_, _)
MonthDayFrom(m, n) ==
    IF m < 12 /\ n > MonthLen[m] THEN MonthDayFrom(m + 1, n - MonthLen[m])
    ELSE <<m, n>>

\* the first review day, 2018-05-03, is day 123 of its year
MonthDay(d) == MonthDayFrom(1, d - REVIEW_FIRST_DAY + 123)

\* the worksheet titles of sheet.py: kind, "%b day" of the start, "%b day" of the end
Title(kind, week) == <<kind, MonthDay(week[1]), MonthDay(week[2])>>

\* ------------------------------------------------------------------ rows

Posts == 1..NPosts
\* the status the remaining cells of a row give it (get_status)
Statuses == {"reviewed", "pending"}

\* the rows of the weekly pages: a row of a Reviewed page carries a review, a row of
\* an Unreviewed page does not
StatusOn(kind) == IF kind = "Reviewed" THEN "reviewed" ELSE "pending"

\* url_split[4][1:] and url_split[5] of the post URL of a row
url_author(u) == ((u - 1) \div 2) + 1
url_permlink(u) == ((u - 1) % 2) + 1

\* a row whose URL has too few segments, or names a post Comment() does not find
BadRows == [url : {0}, status : Statuses]
GoodRows == [url : Posts, status : Statuses]
Rows == GoodRows \cup BadRows

\* contribution(row) raises (IndexError, or the content lookup's exception)
contribution_raises(row) == row.url = 0

contribution(row) ==
    [author |-> url_author(row.url), permlink |-> url_permlink(row.url), status |-> row.status]

\* ------------------------------------------------------------------ state

VARIABLES
    date_in_week,   \* WeekSpec: the argument of get_review_week_start_end
    week,           \* WeekSpec: its result, <<>> before the call
    arg,            \* the argument of a call of get_status, get_watched_users or
                    \* parse_date_to_iso; RaceSpec: the collection before the two tasks
    ret,            \* what that call has computed so far
    update,         \* update_db's flag: TRUE incremental, FALSE full history
    today,          \* date.today() of the run
    worksheets,     \* title -> what sheet.worksheet(title) gave: "missing" or the data rows
    pc,             \* position of the thread that runs update_db (or drains the fetch)
    prev_week,      \* update_db's local: a row generator
    cur_week,       \* update_db's local: a row generator, or the get_all_posts generator
    unreviewed,     \* update_db's local: a row generator
    all_posts,      \* the get_all_posts generator: its position and its unreviewed generator
    rpc,            \* position of the get_all_reviewed_posts generator
    cur_date,       \* get_all_reviewed_posts: the loop variable
    futures,        \* get_all_reviewed_posts: the week futures
    res,            \* get_all_reviewed_posts: the future being drained and its generator
    yielded,        \* the records get_all_reviewed_posts has yielded, in order
    tasks,          \* update_db: the process_post_db futures, in submission order
    store           \* the posts collection: _key -> document

vars == <<date_in_week, week, arg, ret, update, today, worksheets, pc, prev_week, cur_week,
          unreviewed, all_posts, rpc, cur_date, futures, res, yielded, tasks, store>>

weekVars == <<date_in_week, week, arg, ret>>
fetchVars == <<rpc, cur_date, futures, res, yielded>>
dbVars == <<tasks, store>>
localVars == <<prev_week, cur_week, unreviewed, all_posts>>

\* ------------------------------------------------------------------ worksheets

\* what sheet.worksheet(title).get_all_values()[1:] gave: the lookup raised
\* WorksheetNotFound (found = FALSE), or the data rows under the header row
Missing == [found |-> FALSE, rows |-> <<>>]
Page(rows) == [found |-> TRUE, rows |-> rows]

NoSheets == [t \in {} |-> Missing]

RECURSIVE RowsOn(_, _)
RowsOn(ws, titles) ==
    IF titles = {} THEN 0
    ELSE LET t == CHOOSE x \in titles : TRUE
         IN  Len(ws[t].rows) + RowsOn(ws, titles \ {t})

RowsRead(ws) == RowsOn(ws, DOMAIN ws)

RowsOfKind(kind) == {row \in Rows : row.status = StatusOn(kind)}

RowSeqs(kind, n) == UNION {[1..k -> RowsOfKind(kind)] : k \in 0..n}

\* the answers of the spreadsheet for a title: a page read before reads the same
PageContents(ws, title) ==
    IF title \in DOMAIN ws THEN {ws[title]}
    ELSE {Missing} \cup {Page(rows) : rows \in RowSeqs(title[1], MaxRows - RowsRead(ws))}

\* a generator expression over the rows of a page: (contribution(row) for row in ...),
\* the empty list [], and the generator of get_all_posts
RowGen(title, rows) == [kind |-> "rows", page |-> title, rows |-> rows]
EmptyList == [kind |-> "list", page |-> <<>>, rows |-> <<>>]
AllPostsGen == [kind |-> "get_all_posts", page |-> <<>>, rows |-> <<>>]

\* ------------------------------------------------------------------ idle parts

IdleCall == arg = <<>> /\ ret = <<>>

IdleWeek == date_in_week = REVIEW_FIRST_DAY /\ week = <<>> /\ IdleCall

IdleFetch ==
    /\ rpc = "new"
    /\ cur_date = REVIEW_FIRST_DAY
    /\ futures = <<>>
    /\ res = [future |-> 0, rows |-> <<>>]
    /\ yielded = <<>>

IdleLocals ==
    /\ prev_week = EmptyList
    /\ cur_week = EmptyList
    /\ unreviewed = EmptyList
    /\ all_posts = [pc |-> "new", unreviewed |-> EmptyList]

IdleDb == tasks = <<>> /\ store = <<>>

\* ------------------------------------------------------------------ WeekSpec

WeekDates == (REVIEW_FIRST_DAY - DaysBefore)..(REVIEW_FIRST_DAY + DaysAfter)

WeekInit ==
    /\ date_in_week \in WeekDates
    /\ week = <<>>
    /\ IdleCall
    /\ update = TRUE
    /\ today = REVIEW_FIRST_DAY
    /\ worksheets = NoSheets
    /\ pc = "week"
    /\ IdleLocals
    /\ IdleFetch
    /\ IdleDb

\* one call of get_review_week_start_end
WeekCall ==
    /\ pc = "week"
    /\ week = <<>>
    /\ week' = get_review_week_start_end(date_in_week)
    /\ UNCHANGED <<date_in_week, arg, ret, update, today, worksheets, pc, localVars,
                   fetchVars, dbVars>>

WeekNext == WeekCall

WeekSpec == WeekInit /\ [][WeekNext]_vars

\* C4: for every date d, get_review_week_start_end(d) = (start, end) with start a
\* Thursday (weekday 3), end = start + 7 days and start <= d < end; a Thursday is
\* the start of its own window.
C4_WeekWindow ==
    (pc = "week" /\ week # <<>>) =>
        /\ weekday(week[1]) = 3
        /\ week[2] = week[1] + 7
        /\ week[1] <= date_in_week
        /\ date_in_week < week[2]
        /\ (weekday(date_in_week) = 3 => week[1] = date_in_week)

\* a Wednesday, the last day of its window, has been mapped to its window
C4_Witness ==
    /\ pc = "week"
    /\ week # <<>>
    /\ weekday(date_in_week) = 2
    /\ week[1] = date_in_week - 6

\* ------------------------------------------------------------------ the store

\* a document written by an earlier run for post u
OldDoc(u) == [author |-> url_author(u), permlink |-> url_permlink(u), status |-> "old"]

\* the posts collection a run of update_db starts from: an earlier run has stored
\* post 1, and no other post
InitialStore == <<OldDoc(1)>>

\* a lookup that matches nothing
find_document_never(collection, dataExample) == {}

find_document_author(collection, dataExample) ==
    {k \in DOMAIN collection : collection[k].author = dataExample.author}

\* collection.fetchFirstExample({'author': .., 'permlink': ..}): the keys it can answer
find_document(collection, dataExample) ==
    {k \in DOMAIN collection :
        /\ collection[k].author = dataExample.author
        /\ collection[k].permlink = dataExample.permlink}

\* an update that stores the record as a new document
update_document_insert(db, key, document) == Append(db, document)

\* AQL "UPDATE @key WITH @doc": the attributes of doc are written into the document
update_document(db, key, document) ==
    [db EXCEPT ![key] =
        [f \in (DOMAIN @) \cup (DOMAIN document) |->
            IF f \in DOMAIN document THEN document[f] ELSE @[f]]]

\* collection.createDocument(document).save(): a new document under a fresh _key
save_document(collection, document) == Append(collection, document)

\* ------------------------------------------------------------------ the worker pool

\* ThreadPoolExecutor(): max_workers defaults to 5 threads per processor (from
\* Python 3.8 to the processors + 4, at most 32), so a pool has at least 5 threads
PoolSize == 5

Queued(ts) == {t \in DOMAIN ts : ts[t].st = "queued"}
Running(ts) == {t \in DOMAIN ts : ts[t].st \in {"update", "save"}}
Finished(ts) == {t \in DOMAIN ts : ts[t].st \in {"done", "failed"}}

\* ex.submit(process_post_db, post); page is the worksheet the row came from
Submit(ts, post, page) ==
    Append(ts, [post |-> post, page |-> page, st |-> "queued", key |-> 0])

\* a thread of the pool takes the work item and runs process_post_db, lines 84-87:
\* the lookup by (author, permlink). With fewer work items than threads every
\* queued item has a thread, and the lookups reach the store in any order.
Find(t) ==
    /\ t \in Queued(tasks)
    /\ Cardinality(Running(tasks)) < PoolSize
    /\ LET p == find_document(store, tasks[t].post)
       IN  IF p # {}
           THEN \E k \in p : tasks' = [tasks EXCEPT ![t].st = "update", ![t].key = k]
           ELSE tasks' = [tasks EXCEPT ![t].st = "save"]
    /\ UNCHANGED <<weekVars, update, today, worksheets, pc, localVars, fetchVars, store>>

\* process_post_db, lines 88-89
Update(t) ==
    /\ t \in DOMAIN tasks
    /\ tasks[t].st = "update"
    /\ store' = update_document(store, tasks[t].key, tasks[t].post)
    /\ tasks' = [tasks EXCEPT ![t].st = "done"]
    /\ UNCHANGED <<weekVars, update, today, worksheets, pc, localVars, fetchVars>>

\* process_post_db, lines 90-91
Save(t) ==
    /\ t \in DOMAIN tasks
    /\ tasks[t].st = "save"
    /\ store' = save_document(store, tasks[t].post)
    /\ tasks' = [tasks EXCEPT ![t].st = "done"]
    /\ UNCHANGED <<weekVars, update, today, worksheets, pc, localVars, fetchVars>>

\* a store call of the task raises: the future holds the exception
StoreError(t) ==
    /\ t \in Queued(tasks) \cup Running(tasks)
    /\ tasks' = [tasks EXCEPT ![t].st = "failed"]
    /\ UNCHANGED <<weekVars, update, today, worksheets, pc, localVars, fetchVars, store>>

\* ------------------------------------------------------------------ update_db

\* a previous week that is not shifted
PrevWeekDateSame(d) == d
PrevWeekDate(d) == d - 7

ReviewedTitle(week_date) == Title("Reviewed", get_review_week_start_end(week_date))
UnreviewedTitle(d) == Title("Unreviewed", get_review_week_start_end(d))

\* sheet.worksheet(title) and get_all_values()[1:] of a reader called by update_db
\* itself: WorksheetNotFound leaves update_db before the pool exists
ReadInto(title, gen, at, next) ==
    /\ pc = at
    /\ \E c \in PageContents(worksheets, title) :
        /\ worksheets' = (title :> c) @@ worksheets
        /\ IF c.found
           THEN gen = RowGen(title, c.rows) /\ pc' = next
           ELSE gen = EmptyList /\ pc' = "raised"

\* line 102
ReadCurWeek ==
    /\ update
    /\ ReadInto(ReviewedTitle(today), cur_week', "start", "read_prev")
    /\ UNCHANGED <<weekVars, update, today, prev_week, unreviewed, all_posts, fetchVars, dbVars>>

\* lines 103-104
ReadPrevWeek ==
    /\ ReadInto(ReviewedTitle(PrevWeekDate(today)), prev_week', "read_prev", "read_unreviewed")
    /\ UNCHANGED <<weekVars, update, today, cur_week, unreviewed, all_posts, fetchVars, dbVars>>

\* line 105
ReadUnreviewed ==
    /\ ReadInto(UnreviewedTitle(today), unreviewed', "read_unreviewed", "for_prev_week")
    /\ UNCHANGED <<weekVars, update, today, cur_week, prev_week, all_posts, fetchVars, dbVars>>

\* lines 107-109
FullHistory ==
    /\ pc = "start"
    /\ ~update
    /\ cur_week' = AllPostsGen
    /\ prev_week' = EmptyList
    /\ unreviewed' = EmptyList
    /\ pc' = "for_prev_week"
    /\ UNCHANGED <<weekVars, update, today, worksheets, all_posts, fetchVars, dbVars>>

\* one iteration of "for post in gen: futures.append(ex.submit(process_post_db, post))"
\* over a row generator: the row is normalized here, in the thread of update_db
ForPost(gen, genNext, at, next) ==
    /\ pc = at
    /\ gen.kind # "get_all_posts"
    /\ IF gen.rows = <<>>
       THEN /\ pc' = next
            /\ genNext = gen
            /\ tasks' = tasks
       ELSE IF contribution_raises(Head(gen.rows))
       THEN /\ pc' = "unwind"
            /\ genNext = [gen EXCEPT !.rows = <<>>]
            /\ tasks' = tasks
       ELSE /\ pc' = at
            /\ genNext = [gen EXCEPT !.rows = Tail(@)]
            /\ tasks' = Submit(tasks, contribution(Head(gen.rows)), gen.page)

\* lines 113-114
ForPrevWeek ==
    /\ ForPost(prev_week, prev_week', "for_prev_week", "for_cur_week")
    /\ UNCHANGED <<weekVars, update, today, worksheets, cur_week, unreviewed, all_posts,
                   fetchVars, store>>

\* lines 116-117, over one page
ForCurWeek ==
    /\ ForPost(cur_week, cur_week', "for_cur_week", "for_unreviewed")
    /\ UNCHANGED <<weekVars, update, today, worksheets, prev_week, unreviewed, all_posts,
                   fetchVars, store>>

\* lines 119-120
ForUnreviewed ==
    /\ ForPost(unreviewed, unreviewed', "for_unreviewed", "shutdown")
    /\ UNCHANGED <<weekVars, update, today, worksheets, prev_week, cur_week, all_posts,
                   fetchVars, store>>

\* a with block that does not wait for the work items
ShutdownNoWait ==
    /\ pc = "shutdown"
    /\ pc' = "done"
    /\ UNCHANGED <<weekVars, update, today, worksheets, localVars, fetchVars, dbVars>>

\* the end of the with block and wait(futures), line 122: ThreadPoolExecutor.__exit__
\* is shutdown(wait=True), which returns when every work item has run
Shutdown ==
    /\ pc = "shutdown"
    /\ Finished(tasks) = DOMAIN tasks
    /\ pc' = "done"
    /\ UNCHANGED <<weekVars, update, today, worksheets, localVars, fetchVars, dbVars>>

UnwindNoWait ==
    /\ pc = "unwind"
    /\ pc' = "raised"
    /\ UNCHANGED <<weekVars, update, today, worksheets, localVars, fetchVars, dbVars>>

\* an exception leaves the with block: __exit__ waits the same way, then it propagates
Unwind ==
    /\ pc = "unwind"
    /\ Finished(tasks) = DOMAIN tasks
    /\ pc' = "raised"
    /\ UNCHANGED <<weekVars, update, today, worksheets, localVars, fetchVars, dbVars>>

\* ------------------------------------------------------------------ get_all_reviewed_posts

\* a loop that steps by two weeks
NextWeekDateSkip(d) == d + 14
NextWeekDate(d) == d + 7

PendingWeeks(fs) == {i \in DOMAIN fs : fs[i].st = "pending"}
Undrained(fs) == {i \in DOMAIN fs : ~fs[i].drained}

\* the first next() on the generator, lines 209-211
StartReviewed ==
    /\ rpc = "new"
    /\ \/ pc = "fetch"
       \/ pc = "for_cur_week" /\ all_posts.pc = "reviewed"
    /\ cur_date' = REVIEW_FIRST_DAY
    /\ futures' = <<>>
    /\ rpc' = "schedule"
    /\ UNCHANGED <<weekVars, update, today, worksheets, pc, localVars, res, yielded, dbVars>>

\* lines 213-217: one iteration of the while loop
ScheduleWeek ==
    /\ rpc = "schedule"
    /\ cur_date <= today
    /\ futures' = Append(futures, [week_date |-> cur_date, st |-> "pending",
                                   page |-> <<>>, rows |-> <<>>, drained |-> FALSE])
    /\ cur_date' = NextWeekDate(cur_date)
    /\ UNCHANGED <<weekVars, update, today, worksheets, pc, localVars, rpc, res, yielded, dbVars>>

\* line 213: the loop condition fails; the with block is left
ScheduleEnd ==
    /\ rpc = "schedule"
    /\ ~(cur_date <= today)
    /\ rpc' = "join"
    /\ UNCHANGED <<weekVars, update, today, worksheets, pc, localVars, cur_date, futures,
                   res, yielded, dbVars>>

\* get_reviewed_posts_in_week on a worker thread, lines 198-201: the page is looked
\* up and read; the task returns the generator expression, no row is normalized
RunWeek(i) ==
    /\ i \in PendingWeeks(futures)
    /\ LET title == ReviewedTitle(futures[i].week_date)
       IN  \E c \in PageContents(worksheets, title) :
            /\ worksheets' = (title :> c) @@ worksheets
            /\ futures' = [futures EXCEPT ![i].st = IF c.found THEN "done" ELSE "error",
                                          ![i].page = title,
                                          ![i].rows = c.rows]
    /\ UNCHANGED <<weekVars, update, today, pc, localVars, rpc, cur_date, res, yielded, dbVars>>

\* the end of the with block, line 212: shutdown(wait=True)
JoinWeeks ==
    /\ rpc = "join"
    /\ PendingWeeks(futures) = {}
    /\ rpc' = "drain"
    /\ UNCHANGED <<weekVars, update, today, worksheets, pc, localVars, cur_date, futures,
                   res, yielded, dbVars>>

\* lines 219-220: as_completed gives a finished future, in no particular order;
\* res.result() re-raises the exception of a failed task
DrainWeek(i) ==
    /\ rpc = "drain"
    /\ i \in Undrained(futures)
    /\ futures' = [futures EXCEPT ![i].drained = TRUE]
    /\ IF futures[i].st = "error"
       THEN rpc' = "raised" /\ res' = res
       ELSE rpc' = "rows" /\ res' = [future |-> i, rows |-> futures[i].rows]
    /\ UNCHANGED <<weekVars, update, today, worksheets, pc, localVars, cur_date, yielded, dbVars>>

\* line 219: every future has been given
DrainEnd ==
    /\ rpc = "drain"
    /\ Undrained(futures) = {}
    /\ rpc' = "exhausted"
    /\ UNCHANGED <<weekVars, update, today, worksheets, pc, localVars, cur_date, futures,
                   res, yielded, dbVars>>

\* lines 220-221: the next row of the week's generator is normalized, in the thread
\* that iterates get_all_reviewed_posts, and yielded; update_db submits it (line 117)
ReviewedRow ==
    /\ rpc = "rows"
    /\ res.rows # <<>>
    /\ ~contribution_raises(Head(res.rows))
    /\ LET post == contribution(Head(res.rows))
           page == futures[res.future].page
       IN  /\ yielded' = Append(yielded, [post |-> post, page |-> page])
           /\ tasks' = IF pc = "for_cur_week" THEN Submit(tasks, post, page) ELSE tasks
    /\ res' = [res EXCEPT !.rows = Tail(@)]
    /\ UNCHANGED <<weekVars, update, today, worksheets, pc, localVars, rpc, cur_date,
                   futures, store>>

\* lines 220-221: contribution(row) raises inside the generator
ReviewedRowRaises ==
    /\ rpc = "rows"
    /\ res.rows # <<>>
    /\ contribution_raises(Head(res.rows))
    /\ rpc' = "raised"
    /\ UNCHANGED <<weekVars, update, today, worksheets, pc, localVars, cur_date, futures,
                   res, yielded, dbVars>>

\* line 220: the week's generator is exhausted
ReviewedRowsEnd ==
    /\ rpc = "rows"
    /\ res.rows = <<>>
    /\ rpc' = "drain"
    /\ UNCHANGED <<weekVars, update, today, worksheets, pc, localVars, cur_date, futures,
                   res, yielded, dbVars>>

\* ------------------------------------------------------------------ get_all_posts

\* the first next() on the generator, lines 229-230: get_unreviewed_posts reads its
\* page at once; get_all_reviewed_posts only creates its generator
AllPostsStart ==
    /\ pc = "for_cur_week"
    /\ cur_week.kind = "get_all_posts"
    /\ all_posts.pc = "new"
    /\ LET title == UnreviewedTitle(today)
       IN  \E c \in PageContents(worksheets, title) :
            /\ worksheets' = (title :> c) @@ worksheets
            /\ IF c.found
               THEN /\ all_posts' = [pc |-> "reviewed", unreviewed |-> RowGen(title, c.rows)]
                    /\ pc' = pc
               ELSE /\ all_posts' = [pc |-> "closed", unreviewed |-> EmptyList]
                    /\ pc' = "unwind"
    /\ UNCHANGED <<weekVars, update, today, prev_week, cur_week, unreviewed, fetchVars, dbVars>>

\* lines 232-233: the exception of get_all_reviewed_posts passes through
\* get_all_posts into the with block of update_db
AllPostsRaises ==
    /\ pc = "for_cur_week"
    /\ all_posts.pc = "reviewed"
    /\ rpc = "raised"
    /\ all_posts' = [all_posts EXCEPT !.pc = "closed"]
    /\ pc' = "unwind"
    /\ UNCHANGED <<weekVars, update, today, worksheets, prev_week, cur_week, unreviewed,
                   fetchVars, dbVars>>

\* a get_all_posts that ends after the reviewed records
AllPostsReviewedOnly ==
    /\ pc = "for_cur_week"
    /\ all_posts.pc = "reviewed"
    /\ rpc = "exhausted"
    /\ all_posts' = [all_posts EXCEPT !.pc = "closed"]
    /\ pc' = "for_unreviewed"
    /\ UNCHANGED <<weekVars, update, today, worksheets, prev_week, cur_week, unreviewed,
                   fetchVars, dbVars>>

\* lines 232-235: the reviewed generator is exhausted, the unreviewed one is next
AllPostsReviewedEnd ==
    /\ pc = "for_cur_week"
    /\ all_posts.pc = "reviewed"
    /\ rpc = "exhausted"
    /\ all_posts' = [all_posts EXCEPT !.pc = "unreviewed"]
    /\ UNCHANGED <<weekVars, update, today, worksheets, pc, prev_week, cur_week, unreviewed,
                   fetchVars, dbVars>>

\* lines 235-236 under lines 116-117: a row of the Unreviewed page is normalized,
\* yielded and submitted; at the end of it get_all_posts is exhausted
AllPostsUnreviewed ==
    /\ pc = "for_cur_week"
    /\ all_posts.pc = "unreviewed"
    /\ LET gen == all_posts.unreviewed
       IN  IF gen.rows = <<>>
           THEN /\ all_posts' = [all_posts EXCEPT !.pc = "closed"]
                /\ pc' = "for_unreviewed"
                /\ tasks' = tasks
           ELSE IF contribution_raises(Head(gen.rows))
           THEN /\ all_posts' = [all_posts EXCEPT !.pc = "closed"]
                /\ pc' = "unwind"
                /\ tasks' = tasks
           ELSE /\ all_posts' = [all_posts EXCEPT !.unreviewed.rows = Tail(@)]
                /\ pc' = pc
                /\ tasks' = Submit(tasks, contribution(Head(gen.rows)), gen.page)
    /\ UNCHANGED <<weekVars, update, today, worksheets, prev_week, cur_week, unreviewed,
                   fetchVars, store>>

\* ------------------------------------------------------------------ specifications

RunDays == (REVIEW_FIRST_DAY + MinDays)..(REVIEW_FIRST_DAY + MaxDays)

Init ==
    /\ IdleWeek
    /\ update \in BOOLEAN
    /\ today \in RunDays
    /\ worksheets = NoSheets
    /\ pc = "start"
    /\ IdleLocals
    /\ IdleFetch
    /\ tasks = <<>>
    /\ store = InitialStore

Next ==
    \/ ReadCurWeek
    \/ ReadPrevWeek
    \/ ReadUnreviewed
    \/ FullHistory
    \/ ForPrevWeek
    \/ ForCurWeek
    \/ ForUnreviewed
    \/ AllPostsStart
    \/ StartReviewed
    \/ ScheduleWeek
    \/ ScheduleEnd
    \/ \E i \in DOMAIN futures : RunWeek(i)
    \/ JoinWeeks
    \/ \E i \in DOMAIN futures : DrainWeek(i)
    \/ DrainEnd
    \/ ReviewedRow
    \/ ReviewedRowRaises
    \/ ReviewedRowsEnd
    \/ AllPostsRaises
    \/ AllPostsReviewedEnd
    \/ AllPostsUnreviewed
    \/ Shutdown
    \/ Unwind
    \/ \E t \in DOMAIN tasks : Find(t)
    \/ \E t \in DOMAIN tasks : Update(t)
    \/ \E t \in DOMAIN tasks : Save(t)
    \/ \E t \in DOMAIN tasks : StoreError(t)

Spec == Init /\ [][Next]_vars

\* a caller that iterates get_all_reviewed_posts(sheet) to its end
FetchDaysSet == (REVIEW_FIRST_DAY - EarlyDays)..(REVIEW_FIRST_DAY + FetchDays)

FetchInit ==
    /\ IdleWeek
    /\ update = FALSE
    /\ today \in FetchDaysSet
    /\ worksheets = NoSheets
    /\ pc = "fetch"
    /\ IdleLocals
    /\ IdleFetch
    /\ IdleDb

FetchNext ==
    \/ StartReviewed
    \/ ScheduleWeek
    \/ ScheduleEnd
    \/ \E i \in DOMAIN futures : RunWeek(i)
    \/ JoinWeeks
    \/ \E i \in DOMAIN futures : DrainWeek(i)
    \/ DrainEnd
    \/ ReviewedRow
    \/ ReviewedRowRaises
    \/ ReviewedRowsEnd

FetchSpec == FetchInit /\ [][FetchNext]_vars

\* the thread that entered get_all_reviewed_posts keeps running its loop
FairFetchSpec == FetchSpec /\ WF_vars(StartReviewed \/ ScheduleWeek \/ ScheduleEnd)

\* a caller that runs process_post_db(r) twice, the second call after the first returned
LegacyDoc(u) == [author |-> url_author(u), permlink |-> url_permlink(u), status |-> "old",
                 legacy |-> "kept"]

\* collections with at most one document per post, some with an attribute that
\* contribution() does not produce
RECURSIVE StoresUpTo(_)
StoresUpTo(u) ==
    IF u = 0 THEN {<<>>}
    ELSE LET rest == StoresUpTo(u - 1)
         IN  rest \cup {Append(st, OldDoc(u)) : st \in rest}
                  \cup {Append(st, LegacyDoc(u)) : st \in rest}

SeqInit ==
    /\ IdleWeek
    /\ update = TRUE
    /\ today = REVIEW_FIRST_DAY
    /\ worksheets = NoSheets
    /\ pc = "twice"
    /\ IdleLocals
    /\ IdleFetch
    /\ store \in StoresUpTo(NPosts)
    /\ \E row \in GoodRows :
        tasks = Submit(Submit(<<>>, contribution(row), <<>>), contribution(row), <<>>)

\* process_post_db(r), lines 84-87, called when the call before has returned
Call(t) ==
    /\ pc = "twice"
    /\ \A u \in DOMAIN tasks : u < t => u \in Finished(tasks)
    /\ Find(t)

SeqNext ==
    \/ \E t \in DOMAIN tasks : Call(t)
    \/ \E t \in DOMAIN tasks : Update(t)
    \/ \E t \in DOMAIN tasks : Save(t)

SeqSpec == SeqInit /\ [][SeqNext]_vars

\* ------------------------------------------------------------------ get_status

\* a row as the list of its cells: row[c] of the source is Cell(row, c)
Cell(row, c) == row[c + 1]

\* str.lower() on the cell texts of the model
lower(s) ==
    CASE s = "Yes" -> "yes"
      [] s = "YES" -> "yes"
      [] s = "Pending" -> "pending"
      [] s = "PENDING" -> "pending"
      [] s = "No" -> "no"
      [] OTHER -> s

\* the rest of the model stands still during a call of a function of sheet.py
IdleRun ==
    /\ date_in_week = REVIEW_FIRST_DAY
    /\ week = <<>>
    /\ update = TRUE
    /\ today = REVIEW_FIRST_DAY
    /\ worksheets = NoSheets
    /\ IdleLocals
    /\ IdleFetch
    /\ IdleDb

runVars == <<date_in_week, week, update, today, worksheets, localVars, fetchVars, dbVars>>

\* the status looked at after the three cells
get_status_cells_first(row) ==
    IF ~(Cell(row, 0) # "" /\ Cell(row, 1) # "" /\ Cell(row, 5) # "")
    THEN "pending"
    ELSE IF lower(Cell(row, 9)) = "yes" \/ lower(Cell(row, 9)) = "pending"
    THEN "reviewed"
    ELSE "rejected"

\* lines 52-68
get_status(row) ==
    LET row_status == lower(Cell(row, 9))
    IN  IF row_status = "yes" \/ row_status = "pending"
        THEN "reviewed"
        ELSE IF ~(Cell(row, 0) # "" /\ Cell(row, 1) # "" /\ Cell(row, 5) # "")
        THEN "pending"
        ELSE "rejected"

\* rows of a Reviewed / Unreviewed page: moderator, review date, score and status
\* cell each empty or filled, the status cell in several spellings
StatusCells == {"yes", "Yes", "YES", "pending", "Pending", "PENDING", "no", "No", ""}

StatusRows ==
    {<<moderator, review_date, "", "", "", score, "", "", "", status>> :
        moderator \in {"", "amosbastian"}, review_date \in {"", "2018-05-03"},
        score \in {"", "0", "80"}, status \in StatusCells}

StatusInit ==
    /\ IdleRun
    /\ pc = "get_status"
    /\ arg \in StatusRows
    /\ ret = ""

GetStatus ==
    /\ pc = "get_status"
    /\ ret' = get_status(arg)
    /\ pc' = "got_status"
    /\ UNCHANGED <<arg, runVars>>

StatusNext == GetStatus

StatusSpec == StatusInit /\ [][StatusNext]_vars

\* ------------------------------------------------------------------ get_watched_users

\* data rows of the 'Banned users' page: account, ban duration in days, banned
\* since, is-banned flag, reason, banned by
BannedRows ==
    {<<account, days, since, flag, "spam", "amosbastian">> :
        account \in {"", "spammer"}, days \in {"", "7"}, since \in {"", "2018-05-03"},
        flag \in {"yes", "Yes", "no"}}

BannedHeader == <<"Account", "Days", "Banned since", "Banned", "Reason", "Banned by">>

RECURSIVE BannedLists(_)
BannedLists(n) ==
    IF n = 0 THEN {<<>>}
    ELSE LET shorter == BannedLists(n - 1)
         IN  shorter \cup {Append(rows, row) : rows \in shorter, row \in BannedRows}

\* banned_sheet.get_all_values(): the header row, then the data rows
BannedValues == {<<BannedHeader>> \o rows : rows \in BannedLists(MaxBanned)}

\* line 140: parse_date_to_iso(row[2]) if row[2] else '', on the dates of the model
banned_since(row) ==
    IF Cell(row, 2) # ""
    THEN CASE Cell(row, 2) = "2018-05-03" -> "2018-05-03T00:00:00"
           [] OTHER -> ""
    ELSE ""

\* lines 141-142: float(row[1]) raises ValueError on a cell that is not a number;
\* it is evaluated only when banned_since is set
user_raises(row) == banned_since(row) # "" /\ Cell(row, 1) = ""

\* lines 141-142: banned_since plus the days of the duration cell
banned_until(row) ==
    IF banned_since(row) # ""
    THEN CASE Cell(row, 1) = "7" -> "2018-05-10T00:00:00"
    ELSE ""

\* lines 138-151
user(row) ==
    [account |-> Cell(row, 0),
     is_banned |-> lower(Cell(row, 3)) = "yes",
     banned_since |-> banned_since(row),
     banned_until |-> banned_until(row),
     banned_by |-> Cell(row, 5),
     reason |-> Cell(row, 4)]

\* a filter that does not look at the account cell
watched_any_account(row, bannedOnly) ==
    /\ row # <<>>
    /\ IF bannedOnly THEN lower(Cell(row, 3)) = "yes" ELSE TRUE

\* lines 162-163: the condition of the generator expression
watched(row, bannedOnly) ==
    /\ row # <<>>
    /\ Cell(row, 0) # ""
    /\ IF bannedOnly THEN lower(Cell(row, 3)) = "yes" ELSE TRUE

\* get_watched_users(sheet, bannedOnly): arg is the page and the flag, ret the
\* generator: the rows it has not looked at, the users it has yielded, its state
WatchInit ==
    /\ IdleRun
    /\ pc = "watch"
    /\ \E values \in BannedValues, bannedOnly \in BOOLEAN :
        /\ arg = [values |-> values, bannedOnly |-> bannedOnly]
        /\ ret = [rest |-> Tail(values), users |-> <<>>, st |-> "iterating"]

\* the generator passes a row that the condition rejects
WatchSkip ==
    /\ pc = "watch"
    /\ ret.st = "iterating"
    /\ ret.rest # <<>>
    /\ ~watched(Head(ret.rest), arg.bannedOnly)
    /\ ret' = [ret EXCEPT !.rest = Tail(@)]
    /\ UNCHANGED <<arg, pc, runVars>>

\* the generator yields user(row)
WatchYield ==
    /\ pc = "watch"
    /\ ret.st = "iterating"
    /\ ret.rest # <<>>
    /\ watched(Head(ret.rest), arg.bannedOnly)
    /\ ~user_raises(Head(ret.rest))
    /\ ret' = [ret EXCEPT !.rest = Tail(@), !.users = Append(@, user(Head(ret.rest)))]
    /\ UNCHANGED <<arg, pc, runVars>>

\* user(row) raises inside the generator, which is finished by it
WatchRaises ==
    /\ pc = "watch"
    /\ ret.st = "iterating"
    /\ ret.rest # <<>>
    /\ watched(Head(ret.rest), arg.bannedOnly)
    /\ user_raises(Head(ret.rest))
    /\ ret' = [ret EXCEPT !.st = "raised"]
    /\ UNCHANGED <<arg, pc, runVars>>

\* no row is left
WatchEnd ==
    /\ pc = "watch"
    /\ ret.st = "iterating"
    /\ ret.rest = <<>>
    /\ ret' = [ret EXCEPT !.st = "exhausted"]
    /\ UNCHANGED <<arg, pc, runVars>>

WatchNext ==
    \/ WatchSkip
    \/ WatchYield
    \/ WatchRaises
    \/ WatchEnd

WatchSpec == WatchInit /\ [][WatchNext]_vars

\* ------------------------------------------------------------------ parse_date_to_iso

\* the dates dateutil's parser gives in the model
ParsedDates == REVIEW_FIRST_DAY..(REVIEW_FIRST_DAY + NDates - 1)

\* datetime.isoformat(): year, month, day, hour, minute, second of "2018-05-03T00:00:00"
isoformat(d) == <<2018, MonthDay(d)[1], MonthDay(d)[2], 0, 0, 0>>

\* what one call of parser.parse does with a string: it returns a datetime, raises
\* ValueError (the string is not a date this way round) or raises another
\* exception (OverflowError, a date beyond the platform's integers)
ParseOutcomes ==
    [kind : {"datetime"}, d : ParsedDates] \cup [kind : {"ValueError", "OverflowError"}, d : {0}]

\* a cell text, given by what the parser does with it in the default reading and
\* in the day-first reading; the empty text is never parsed
DateStrings ==
    [empty : {FALSE}, default : ParseOutcomes, dayfirst : ParseOutcomes]
        \cup {[empty |-> TRUE, default |-> [kind |-> "ValueError", d |-> 0],
               dayfirst |-> [kind |-> "ValueError", d |-> 0]]}

\* parse_date_to_iso(date): the empty string is the empty sequence
DateInit ==
    /\ IdleRun
    /\ pc = "parse_date"
    /\ arg \in DateStrings
    /\ ret = <<>>

\* lines 35-36
DateEmpty ==
    /\ pc = "parse_date"
    /\ arg.empty
    /\ ret' = <<>>
    /\ pc' = "parsed_date"
    /\ UNCHANGED <<arg, runVars>>

\* lines 38-39, and the handlers of the outer try: except ValueError (line 40)
\* goes on to the retry, except Exception (lines 46-47) gives ''
ParseDefault ==
    /\ pc = "parse_date"
    /\ ~arg.empty
    /\ CASE arg.default.kind = "datetime" ->
                ret' = isoformat(arg.default.d) /\ pc' = "parsed_date"
         [] arg.default.kind = "ValueError" ->
                ret' = ret /\ pc' = "retry_dayfirst"
         [] OTHER ->
                ret' = <<>> /\ pc' = "parsed_date"
    /\ UNCHANGED <<arg, runVars>>

\* lines 41-45, inside the handler of ValueError: the inner try catches ValueError
\* only, and an exception raised in a handler is not offered to the other
\* handlers of the same try statement
ParseDayFirst ==
    /\ pc = "retry_dayfirst"
    /\ CASE arg.dayfirst.kind = "datetime" ->
                ret' = isoformat(arg.dayfirst.d) /\ pc' = "parsed_date"
         [] arg.dayfirst.kind = "ValueError" ->
                ret' = <<>> /\ pc' = "parsed_date"
         [] OTHER ->
                ret' = ret /\ pc' = "date_raised"
    /\ UNCHANGED <<arg, runVars>>

DateNext ==
    \/ DateEmpty
    \/ ParseDefault
    \/ ParseDayFirst

DateSpec == DateInit /\ [][DateNext]_vars

\* ------------------------------------------------------------------ helpers of the claims

NaturalKey(u) == [author |-> url_author(u), permlink |-> url_permlink(u)]

\* the documents stored for post u
DocsOf(u) == find_document(store, NaturalKey(u))

\* the tasks of post u that have written their record
WritersOf(u) ==
    {t \in DOMAIN tasks :
        /\ tasks[t].st = "done"
        /\ tasks[t].post.author = url_author(u)
        /\ tasks[t].post.permlink = url_permlink(u)}

\* the tasks that took the insert path and have written
Inserted == {t \in DOMAIN tasks : tasks[t].st = "done" /\ tasks[t].key = 0}

\* the number of documents the collection held before the run
InitialLen == Len(store) - Cardinality(Inserted)

\* the document holds the record: every field of the record has the record's value
Holds(doc, post) == \A f \in DOMAIN post : f \in DOMAIN doc /\ doc[f] = post[f]

Returned == pc \in {"done", "raised"}

\* ------------------------------------------------------------------ C1

\* C1: in every reachable state of a run of update_db the posts collection holds at
\* most one document per (author, permlink), also when a pair with no document
\* before the run is submitted more than once.
C1_UniqueNaturalKey == \A u \in Posts : Cardinality(DocsOf(u)) <= 1

\* ------------------------------------------------------------------ C2

\* C2: a pair with a document before the run keeps exactly one document in every
\* state, whatever tasks run for it and however they interleave, and once
\* update_db is over and a task of the pair has written, the document holds the
\* record of one of those tasks.
C2_ExistingPairRace ==
    \A u \in Posts :
        u <= InitialLen =>
            /\ Cardinality(DocsOf(u)) = 1
            /\ (Returned /\ WritersOf(u) # {}) =>
                   \E t \in WritersOf(u) : \A k \in DocsOf(u) : Holds(store[k], tasks[t].post)

\* two tasks with different records have raced on a pair stored before the run
C2_Witness ==
    /\ pc = "done"
    /\ \E u \in Posts :
        /\ u <= InitialLen
        /\ \E t1, t2 \in WritersOf(u) :
            /\ t1 < t2
            /\ tasks[t1].post # tasks[t2].post
            /\ \A k \in DocsOf(u) : Holds(store[k], tasks[t1].post)

\* ------------------------------------------------------------------ RaceSpec

\* process_post_db(post), lines 82-92, as one uninterrupted call on a collection
process_post_db(collection, post) ==
    LET p == find_document(collection, post)
    IN  IF p # {}
        THEN update_document(collection, CHOOSE k \in p : \A j \in p : k <= j, post)
        ELSE save_document(collection, post)

\* two process_post_db tasks on the pool for records of different pairs, from any
\* collection with at most one document per post; arg keeps the collection as it
\* was when they were submitted
RaceInit ==
    /\ date_in_week = REVIEW_FIRST_DAY
    /\ week = <<>>
    /\ ret = <<>>
    /\ update = TRUE
    /\ today = REVIEW_FIRST_DAY
    /\ worksheets = NoSheets
    /\ pc = "race"
    /\ IdleLocals
    /\ IdleFetch
    /\ store \in StoresUpTo(NPosts)
    /\ arg = store
    /\ \E r1, r2 \in GoodRows :
        /\ r1.url # r2.url
        /\ tasks = Submit(Submit(<<>>, contribution(r1), <<>>), contribution(r2), <<>>)

RaceNext ==
    \/ \E t \in DOMAIN tasks : Find(t)
    \/ \E t \in DOMAIN tasks : Update(t)
    \/ \E t \in DOMAIN tasks : Save(t)

RaceSpec == RaceInit /\ [][RaceNext]_vars

\* ------------------------------------------------------------------ C3

GoodRowsOf(title) == SelectSeq(worksheets[title].rows, LAMBDA row : ~contribution_raises(row))

\* the records of the rows of a page that normalize, in page order
PageLog(title) ==
    [i \in 1..Len(GoodRowsOf(title)) |->
        [post |-> contribution(GoodRowsOf(title)[i]), page |-> title]]

\* the records submitted to the pool, in submission order
TaskLog == [t \in DOMAIN tasks |-> [post |-> tasks[t].post, page |-> tasks[t].page]]

SubmittedFrom(title) == SelectSeq(TaskLog, LAMBDA e : e.page = title)

YieldedFrom(title) == SelectSeq(yielded, LAMBDA e : e.page = title)

AllPagesFound == \A title \in DOMAIN worksheets : worksheets[title].found

HasBadRow(title) == \E i \in DOMAIN worksheets[title].rows : contribution_raises(worksheets[title].rows[i])

\* C5: when a row fails to normalize, every other row of the pages of the run is
\* still normalized and reconciled in the same run of update_db.
C5_RowFailureIsolated ==
    (Returned /\ AllPagesFound) =>
        /\ Finished(tasks) = DOMAIN tasks
        /\ \A title \in DOMAIN worksheets : SubmittedFrom(title) = PageLog(title)

\* ------------------------------------------------------------------ C6

\* C6: in get_all_reviewed_posts a week whose page does not exist or has no data
\* rows contributes no record and does not fail the fetch: the records of every
\* other week are yielded and the sequence ends normally.
C6_MissingWeekIsEmpty ==
    (pc = "fetch" /\ rpc \in {"exhausted", "raised"}
        /\ \A title \in DOMAIN worksheets : ~HasBadRow(title)) =>
        /\ rpc = "exhausted"
        /\ \A title \in DOMAIN worksheets : YieldedFrom(title) = PageLog(title)

\* ------------------------------------------------------------------ C7

WeekDatesUpTo(d) == {w \in REVIEW_FIRST_DAY..d : (w - REVIEW_FIRST_DAY) % 7 = 0}

ReviewedTitlesUpTo(d) == {ReviewedTitle(w) : w \in WeekDatesUpTo(d)}

\* C7 as stated: in full-history mode the Unreviewed page is never read and no
\* record of it is submitted for reconciliation.
C7_UnreviewedSkipped ==
    ~update =>
        /\ UnreviewedTitle(today) \notin DOMAIN worksheets
        /\ \A t \in DOMAIN tasks : tasks[t].page # UnreviewedTitle(today)

\* C7 amended: in full-history mode update_db reconciles the output of
\* get_all_posts: the Unreviewed page of the current week is read before any week
\* page; what is submitted is the entire output of get_all_reviewed_posts, in its
\* order, followed by records of the Unreviewed page, and nothing else; when
\* update_db returns normally every record of the Unreviewed page was submitted.
C7_FullHistoryAllPosts ==
    (~update /\ pc # "start") =>
        /\ DOMAIN worksheets \subseteq ReviewedTitlesUpTo(today) \cup {UnreviewedTitle(today)}
        /\ rpc # "new" => UnreviewedTitle(today) \in DOMAIN worksheets
        /\ Len(tasks) >= Len(yielded)
        /\ SubSeq(TaskLog, 1, Len(yielded)) = yielded
        /\ \A t \in DOMAIN tasks : t > Len(yielded) =>
               /\ rpc = "exhausted"
               /\ tasks[t].page = UnreviewedTitle(today)
        /\ pc = "done" =>
               /\ rpc = "exhausted"
               /\ SubmittedFrom(UnreviewedTitle(today)) = PageLog(UnreviewedTitle(today))
               /\ ~HasBadRow(UnreviewedTitle(today))
               /\ Len(tasks) = Len(yielded) + Len(PageLog(UnreviewedTitle(today)))

\* a full-history run has returned after reconciling a reviewed record and then a
\* record of the Unreviewed page
C7_Witness ==
    /\ ~update
    /\ pc = "done"
    /\ Len(yielded) = 1
    /\ Len(tasks) = 2
    /\ tasks[2].page = UnreviewedTitle(today)
    /\ tasks[2].st = "done"

\* ------------------------------------------------------------------ C8

\* C8: in incremental mode the pages read are the Reviewed page of the week of
\* today, the Reviewed page of the week before (the window shifted by 7 days) and
\* the Unreviewed page of the week of today; every record submitted comes from one
\* of them, and when update_db returns normally the records submitted are exactly
\* the records of the three pages.
C8_IncrementalPages ==
    LET this == get_review_week_start_end(today)
        before == <<this[1] - 7, this[2] - 7>>
        cur == Title("Reviewed", this)
        prev == Title("Reviewed", before)
        unrev == Title("Unreviewed", this)
    IN  (update /\ pc # "start") =>
            /\ this[1] <= today /\ today < this[2]
            /\ DOMAIN worksheets \subseteq {cur, prev, unrev}
            /\ pc \notin {"read_prev", "read_unreviewed", "raised"} => DOMAIN worksheets = {cur, prev, unrev}
            /\ Cardinality({cur, prev, unrev}) = 3
            /\ \A t \in DOMAIN tasks : tasks[t].page \in {cur, prev, unrev}
            /\ pc = "done" => TaskLog = PageLog(prev) \o PageLog(cur) \o PageLog(unrev)

\* an incremental run has returned after reconciling a record of the week before
\* and a record of the Unreviewed page
C8_Witness ==
    /\ update
    /\ pc = "done"
    /\ Len(tasks) = 2
    /\ tasks[1].page = ReviewedTitle(today - 7)
    /\ tasks[2].page = UnreviewedTitle(today)
    /\ weekday(today) # 3

\* ------------------------------------------------------------------ C10

\* C10: update_db is over (it returned, or its exception left it) only when every
\* reconcile task it submitted has finished, and the failure of a task changes no
\* other task: none is cancelled, each still runs to its own end.
C10_WaitsForEveryTask ==
    /\ [](Returned => Finished(tasks) = DOMAIN tasks)
    /\ [][\A t \in DOMAIN tasks :
            (tasks[t].st # "failed" /\ tasks'[t].st = "failed") =>
                /\ DOMAIN tasks' = DOMAIN tasks
                /\ \A u \in DOMAIN tasks \ {t} : tasks'[u] = tasks[u]]_vars

\* update_db has returned; the first task failed on the store before the second
\* was looked at, and the second then ran and wrote
C10_Witness ==
    /\ pc = "done"
    /\ Len(tasks) = 2
    /\ tasks[1].st = "failed"
    /\ tasks[2].st = "done"
    /\ Len(store) = 1

\* ------------------------------------------------------------------ C9

Scheduled == rpc \notin {"new", "schedule"}

\* C9: get_all_reviewed_posts schedules one week task for each date
\* REVIEW_FIRST_DAY + 7k (k >= 0) up to today and no other, which is
\* floor((today - REVIEW_FIRST_DAY) / 7) + 1 tasks from the first review day on;
\* the window of the k-th task is [REVIEW_FIRST_DAY + 7k, REVIEW_FIRST_DAY + 7k + 7),
\* the windows are pairwise disjoint and the last holds today; the scheduling
\* loop ends for every today.
C9_WeekTasks ==
    /\ [](pc = "fetch" =>
            /\ \A i \in DOMAIN futures :
                /\ futures[i].week_date = REVIEW_FIRST_DAY + 7 * (i - 1)
                /\ futures[i].week_date <= today
                /\ get_review_week_start_end(futures[i].week_date)
                       = <<REVIEW_FIRST_DAY + 7 * (i - 1), REVIEW_FIRST_DAY + 7 * i>>
                /\ \A j \in DOMAIN futures :
                       i < j => get_review_week_start_end(futures[i].week_date)[2]
                                    <= get_review_week_start_end(futures[j].week_date)[1]
            /\ Scheduled =>
                /\ {futures[i].week_date : i \in DOMAIN futures} = WeekDatesUpTo(today)
                /\ today >= REVIEW_FIRST_DAY =>
                       /\ Len(futures) = ((today - REVIEW_FIRST_DAY) \div 7) + 1
                       /\ get_review_week_start_end(futures[Len(futures)].week_date)
                              = get_review_week_start_end(today)
                /\ today < REVIEW_FIRST_DAY => futures = <<>>)
    /\ <>(Scheduled)

\* today is 2018-05-17: three tasks, for 2018-05-03, 2018-05-10 and 2018-05-17
C9_Witness ==
    /\ pc = "fetch"
    /\ today = REVIEW_FIRST_DAY + 14
    /\ rpc = "join"
    /\ Len(futures) = 3
    /\ futures[3].week_date = today
    /\ MonthDay(futures[1].week_date) = <<5, 3>>
    /\ MonthDay(futures[2].week_date) = <<5, 10>>
    /\ MonthDay(futures[3].week_date) = <<5, 17>>

\* ------------------------------------------------------------------ C11

\* C11: whenever a run completes update_db returns normally, whichever rows fail
\* to normalize and whichever reconcile tasks fail: no exception leaves update_db.
C11_ReturnsNormally == AllPagesFound => pc # "raised"

\* ------------------------------------------------------------------ C12

NoBadRow == \A title \in DOMAIN worksheets : ~HasBadRow(title)

NoTaskFailed == \A t \in DOMAIN tasks : tasks[t].st # "failed"

\* the posts named by the rows of the pages of the run
RowPosts ==
    UNION {{worksheets[title].rows[i].url : i \in DOMAIN worksheets[title].rows} :
            title \in DOMAIN worksheets}

StoredPosts == {u \in Posts : DocsOf(u) # {}}

\* C12: after a run of update_db in which no page read, content lookup or store
\* write fails, every row of every page of the run has a document for its pair, the
\* stored pairs are those stored before the run and those of the rows, each pair
\* is stored exactly once, and the document of a row's pair holds a record
\* normalized in this run from a row with that pair.
C12_EndToEnd ==
    (pc = "done" /\ AllPagesFound /\ NoBadRow /\ NoTaskFailed) =>
        /\ \A u \in RowPosts : DocsOf(u) # {}
        /\ StoredPosts = {u \in Posts : u <= InitialLen} \cup RowPosts
        /\ \A u \in StoredPosts : Cardinality(DocsOf(u)) = 1
        /\ \A u \in RowPosts : \A k \in DocsOf(u) :
               \E t \in WritersOf(u) : Holds(store[k], tasks[t].post)

\* ------------------------------------------------------------------ C19

\* C19: once iterating a record source has raised inside the submission loop, no
\* reconcile task is submitted any more, the tasks submitted before keep their
\* records (none is cancelled or dropped), and the exception leaves update_db only
\* when every one of them has run to its end.
C19_FailureKeepsSubmitted ==
    [][pc = "unwind" =>
         /\ pc' \in {"unwind", "raised"}
         /\ DOMAIN tasks' = DOMAIN tasks
         /\ \A t \in DOMAIN tasks :
                /\ tasks'[t].post = tasks[t].post
                /\ t \in Finished(tasks) => tasks'[t] = tasks[t]
         /\ pc' = "raised" => Finished(tasks) = DOMAIN tasks]_vars

\* a malformed row stopped the loop after one record had been submitted; the
\* exception has left update_db and the task of that record has inserted it
C19_Witness ==
    /\ pc = "raised"
    /\ \E title \in DOMAIN worksheets : HasBadRow(title)
    /\ Len(tasks) = 1
    /\ tasks[1].st = "done"
    /\ Len(store) = InitialLen + 1

\* ------------------------------------------------------------------ C16

\* C16: the update of an existing document replaces it field for field: after it
\* the stored document has exactly the fields of the new record, with the
\* record's values, and the number of documents is unchanged.
C16_UpdateReplaces ==
    [][\A t \in DOMAIN tasks :
          (tasks[t].st = "update" /\ tasks'[t].st = "done") =>
              /\ DOMAIN store'[tasks[t].key] = DOMAIN tasks[t].post
              /\ Holds(store'[tasks[t].key], tasks[t].post)
              /\ Len(store') = Len(store)]_vars

\* ------------------------------------------------------------------ C17

\* the documents of the record's pair, with their keys
PairDocs(collection, post) ==
    {<<k, collection[k]>> : k \in {j \in DOMAIN collection :
        /\ collection[j].author = post.author
        /\ collection[j].permlink = post.permlink}}

\* how many times the collection holds the document
Copies(collection, doc) == Cardinality({k \in DOMAIN collection : collection[k] = doc})

\* the same documents, whatever keys the store gave them
SameDocs(c1, c2) ==
    /\ Len(c1) = Len(c2)
    /\ \A k \in DOMAIN c1 : Copies(c1, c1[k]) = Copies(c2, c1[k])

\* C17: two process_post_db tasks for records of different (author, permlink)
\* pairs, interleaved in any way, leave the documents that the two calls leave
\* when run one after the other, in either order (and, keys included, the
\* collection of one of the two orders), and no step of a task creates or
\* changes a document of the other task's pair.
C17_DifferentKeysSafe ==
    /\ []((pc = "race" /\ Finished(tasks) = DOMAIN tasks) =>
            LET a == tasks[1].post
                b == tasks[2].post
                ab == process_post_db(process_post_db(arg, a), b)
                ba == process_post_db(process_post_db(arg, b), a)
            IN  /\ SameDocs(store, ab)
                /\ SameDocs(store, ba)
                /\ store \in {ab, ba})
    /\ [][pc = "race" =>
            \A t, u \in DOMAIN tasks :
                (t # u /\ tasks'[t] # tasks[t]) =>
                    PairDocs(store', tasks[u].post) = PairDocs(store, tasks[u].post)]_vars

\* both tasks have inserted, the second one first, each after the other's lookup
C17_Witness ==
    /\ pc = "race"
    /\ Finished(tasks) = DOMAIN tasks
    /\ Len(store) = Len(arg) + 2
    /\ store[Len(arg) + 1] = tasks[2].post
    /\ store[Len(arg) + 2] = tasks[1].post

\* ------------------------------------------------------------------ C18

\* C18: the rows of a week are normalized by the week's task: every call of
\* contribution() for a row of the week happens while the task's future is not
\* complete yet, not when the results are drained.
C18_NormalizedInTask ==
    [][Len(yielded') > Len(yielded) => futures[res.future].st = "pending"]_vars

\* ------------------------------------------------------------------ C13

ReviewedSpellings == {"yes", "Yes", "YES", "pending", "Pending", "PENDING"}

\* C13: get_status gives reviewed when the status cell (column 9) is "yes" or
\* "pending" in any letter case, whatever the other cells hold; otherwise rejected
\* when moderator (column 0), review date (column 1) and score (column 5) are all
\* filled; otherwise pending. The result is one of the three.
C13_StatusPriority ==
    pc = "got_status" =>
        /\ ret \in {"reviewed", "pending", "rejected"}
        /\ arg[10] \in ReviewedSpellings => ret = "reviewed"
        /\ (arg[10] \notin ReviewedSpellings /\ arg[1] # "" /\ arg[2] # "" /\ arg[6] # "")
               => ret = "rejected"
        /\ (arg[10] \notin ReviewedSpellings /\ (arg[1] = "" \/ arg[2] = "" \/ arg[6] = ""))
               => ret = "pending"

\* a row marked "Yes" with no moderator, date or score has come out as reviewed
C13_Witness ==
    /\ pc = "got_status"
    /\ arg = <<"", "", "", "", "", "", "", "", "", "Yes">>
    /\ ret = "reviewed"

\* ------------------------------------------------------------------ C14

\* the data rows of the page and those the generator has looked at
DataRows == Tail(arg.values)

LookedAt == SubSeq(DataRows, 1, Len(DataRows) - Len(ret.rest))

UsersOf(rows) == [i \in 1..Len(rows) |-> user(rows[i])]

FlagIsYes(row) == row[4] \in {"yes", "Yes", "YES"}

\* the rows the claim selects: flag "yes" with bannedOnly, any row with a filled cell without
ClaimedRow(row) ==
    IF arg.bannedOnly THEN FlagIsYes(row) ELSE \E c \in DOMAIN row : row[c] # ""

\* the rows with an account, and flag "yes" with bannedOnly
AccountRow(row) == row[1] # "" /\ (arg.bannedOnly => FlagIsYes(row))

\* C14 as claimed: with bannedOnly a user is yielded for exactly the rows whose
\* flag is "yes", without it for every non-empty row whichever cells are filled
C14_EveryNonEmptyRow ==
    (pc = "watch" /\ ret.st = "exhausted") =>
        ret.users = UsersOf(SelectSeq(DataRows, ClaimedRow))

\* C14: get_watched_users yields, in page order, a user for exactly the data rows
\* whose account cell is filled and, with bannedOnly, whose flag is "yes" in any
\* letter case; rows with an empty account cell are skipped in both modes; the
\* iteration ends when the rows are exhausted or at the first selected row on
\* which user() raises (a banned-since date with an empty duration).
C14_AccountRows ==
    pc = "watch" =>
        /\ ret.users = UsersOf(SelectSeq(LookedAt, AccountRow))
        /\ ret.st = "exhausted" => ret.rest = <<>>
        /\ ret.st = "raised" =>
               /\ ret.rest # <<>>
               /\ AccountRow(Head(ret.rest))
               /\ Head(ret.rest)[3] # "" /\ Head(ret.rest)[2] = ""

\* bannedOnly is false; the first row has a flag, a reason and no account and was
\* skipped, the second has an account and was yielded
C14_Witness ==
    /\ pc = "watch"
    /\ ret.st = "exhausted"
    /\ ~arg.bannedOnly
    /\ Len(DataRows) = 2
    /\ DataRows[1][1] = "" /\ DataRows[1][4] = "yes"
    /\ DataRows[2][1] # ""
    /\ Len(ret.users) = 1

\* ------------------------------------------------------------------ C15

\* C15: parse_date_to_iso never raises: it returns an ISO-8601 string or the empty
\* string, and when the day-first retry fails, whatever the kind of the error, the
\* result is the empty string.
C15_NeverRaises ==
    /\ pc # "date_raised"
    /\ pc = "parsed_date" => (ret = <<>> \/ \E d \in ParsedDates : ret = isoformat(d))

====
